---- MODULE Spec2Model ----
(***************************************************************************)
(* Five-in-a-row engine: the padded one-dimensional board shared by        *)
(* SimpleGoBoard (src/gomoku4/simple_board.py) and GoBoard                 *)
(* (src/gomoku/board.py), its placement and undo primitives, the two       *)
(* terminal detectors, the random rollout, the rule-based ranker, the     *)
(* line-pattern classifier, the capture rules of SimpleGoBoard.play_move   *)
(* and solve().  The module alphabeta that solve() calls is not among the  *)
(* sources; its search is written from section 4.5 of the specification.   *)
(*                                                                         *)
(* Both classes keep the same fields (size, NS, maxpoint, board,           *)
(* current_player, ko_recapture) and build them with the same reset(), so  *)
(* one set of variables carries the object and every method of either      *)
(* class is an action (or an operator) over it.  GoBoard.last_move and     *)
(* last2_move are written by play_move and read by nothing the properties  *)
(* below speak about; they are not carried.                                *)
(*                                                                         *)
(* A Python index into the numpy array follows Python's rules: an index    *)
(* in [-maxpoint, -1] addresses the array from its end, an index outside   *)
(* [-maxpoint, maxpoint) raises IndexError.  An exception is the value     *)
(* "IndexError" / "AssertionError" / "AttributeError" of ret.val.          *)
(***************************************************************************)
EXTENDS Integers, Sequences, FiniteSets, TLC

VARIABLES size, board, current_player, ko_recapture, liberty_of, neighbors, ret, snap

vars == <<size, board, current_player, ko_recapture, liberty_of, neighbors, ret, snap>>

(* ------------------------------ bounds --------------------------------- *)

\* largest board the position-evaluation specifications build
MaxSize == 6
\* largest board the game specification (Spec) builds
MaxGameSize == 2
\* most stones the game specification puts on a board
MaxStones == 3
\* most empty points on a board handed to a rollout
MaxFill == 2
\* largest simulation_amount handed to find_all_potential_moves
MaxSimulations == 1

(* ----------------------------- constants ------------------------------- *)

EMPTY == "EMPTY"
BLACK == "BLACK"
WHITE == "WHITE"
BORDER == "BORDER"
PASS == "PASS"
None == "None"
\* an int32 that is no point of the grid
NULLPOINT == 0

\* assert 2 <= size <= MAXSIZE
MinSize == 2
\* the length of a winning line
WinLength == 5

Colors == {BLACK, WHITE}

(* ------------------------------ geometry ------------------------------- *)

NS == size + 1

maxpoint == size * size + 3 * (size + 1)

AllPoints == 0 .. (maxpoint - 1)

row_start(row) == row * NS + 1

pt(row, col) == NS * row + col

point_to_coord(point) == <<point \div NS, point % NS>>

\* _initialize_empty_points applied to np.full(maxpoint, BORDER)
EmptyBoard ==
    [p \in AllPoints |->
        IF \E row \in 1 .. size : p \in row_start(row) .. (row_start(row) + size - 1)
        THEN EMPTY ELSE BORDER]

\* where1d(self.board == color): the indices, ascending
where1d(b, color) == {p \in DOMAIN b : b[p] = color}

get_empty_points(b) == where1d(b, EMPTY)

InteriorPoints == where1d(EmptyBoard, EMPTY)

Stones(b) == {p \in DOMAIN b : b[p] \in Colors}

\* WHITE + BLACK - color  /  GoBoardUtil.opponent(color)
opponent(color) == IF color = BLACK THEN WHITE ELSE IF color = WHITE THEN BLACK ELSE color

(* ------------------------- numpy / Python indexing --------------------- *)

IndexOK(i) == (0 - maxpoint) <= i /\ i < maxpoint

Wrap(i) == IF i < 0 THEN i + maxpoint ELSE i

\* the integers a caller hands over as a point: every cell of the grid, the
\* first BORDER cell, the first index past the end of the array, and the
\* negative indices of the last cell of the array and of the first cell of the grid
PointInputs ==
    {p \in AllPoints : p \div NS \in 1 .. size /\ p % NS \in 1 .. size}
    \cup {0, maxpoint, 0 - 1, row_start(1) - maxpoint}

(* ------------------------------ results -------------------------------- *)

Ret(op, val, out) == [op |-> op, val |-> val, out |-> out]

\* the array before the last successful placement, the cell it wrote (-1: none)
\* and the colour it wrote; undone once undo_all_move has taken that stone back
NoSnap == [board |-> <<>>, point |-> 0 - 1, color |-> None, undone |-> FALSE]

Placed(b, point, color) == [board |-> b, point |-> point, color |-> color, undone |-> FALSE]

goVars == <<ko_recapture, liberty_of, neighbors>>

(* --------------------------- construction ------------------------------ *)

\* SimpleGoBoard._neighbors(point): the list of all four neighbours
four_neighbors(point) == <<point - 1, point + 1, point - NS, point + NS>>

\* the four neighbours, BORDER cells among them
on_board_neighbors_unfiltered(b, point) == four_neighbors(point)

\* SimpleGoBoard._on_board_neighbors(point)
on_board_neighbors(b, point) == SelectSeq(four_neighbors(point), LAMBDA nb : b[nb] # BORDER)

\* SimpleGoBoard._initialize_neighbors(): the list self.neighbors
initialize_neighbors(b) ==
    [point \in AllPoints |->
        IF b[point] = BORDER THEN <<>> ELSE on_board_neighbors(b, point)]

\* SimpleGoBoard.reset / GoBoard.reset
reset(s) ==
    /\ size = s
    /\ board = EmptyBoard
    /\ current_player = BLACK
    /\ ko_recapture = None
    /\ liberty_of = [p \in AllPoints |-> NULLPOINT]
    /\ neighbors = initialize_neighbors(EmptyBoard)
    /\ ret = Ret("init", None, <<>>)
    /\ snap = NoSnap

\* the fields of a board on which `player` is to move, apart from the array
PositionFields(player) ==
    /\ current_player = player
    /\ ko_recapture = None
    /\ liberty_of = [p \in AllPoints |-> NULLPOINT]
    /\ neighbors = initialize_neighbors(EmptyBoard)
    /\ ret = Ret("init", None, <<>>)
    /\ snap = NoSnap

\* the fields reset() sets, apart from the array
FreshFields ==
    /\ current_player = BLACK
    /\ ko_recapture = None
    /\ liberty_of = [p \in AllPoints |-> NULLPOINT]
    /\ neighbors = initialize_neighbors(EmptyBoard)
    /\ ret = Ret("init", None, <<>>)
    /\ snap = NoSnap

Init == \E s \in MinSize .. MaxGameSize : reset(s)

(* ---------------------------- placement -------------------------------- *)

\* the four orthogonal neighbours of p
Adjacent(p) == {p - 1, p + 1, p - NS, p + NS} \cap AllPoints

\* a placement that also takes off the board the opposing neighbours left
\* without an empty neighbour (the capture rule of the other game)
place_with_capture(b, point, color) ==
    IF ~IndexOK(point) THEN [val |-> "IndexError", board |-> b, placed |-> FALSE]
    ELSE IF b[Wrap(point)] # EMPTY
         THEN [val |-> "False", board |-> b, placed |-> FALSE]
         ELSE LET put == [b EXCEPT ![Wrap(point)] = color]
                  taken == {q \in Adjacent(Wrap(point)) :
                               /\ put[q] = opponent(color)
                               /\ \A n \in Adjacent(q) : put[n] # EMPTY}
              IN  [val |-> "True",
                   board |-> [q \in DOMAIN b |-> IF q \in taken THEN EMPTY ELSE put[q]],
                   placed |-> TRUE]

\* a placement that does not look at what the cell holds
place_anywhere(b, point, color) ==
    IF ~IndexOK(point) THEN [val |-> "IndexError", board |-> b, placed |-> FALSE]
    ELSE [val |-> "True", board |-> [b EXCEPT ![Wrap(point)] = color], placed |-> TRUE]

\* the cell play_move_gomoku / play_move writes and the value it returns
PlaceResult(b, point, color) ==
    IF ~IndexOK(point) THEN [val |-> "IndexError", board |-> b, placed |-> FALSE]
    ELSE IF b[Wrap(point)] # EMPTY
         THEN [val |-> "False", board |-> b, placed |-> FALSE]
         ELSE [val |-> "True", board |-> [b EXCEPT ![Wrap(point)] = color], placed |-> TRUE]

\* SimpleGoBoard.play_move_gomoku(point, color)
play_move_gomoku(point, color) ==
    LET r == PlaceResult(board, point, color) IN
    /\ r.placed => Cardinality(Stones(board)) < MaxStones
    /\ board' = r.board
    /\ current_player' = IF r.placed THEN opponent(color) ELSE current_player
    /\ ret' = Ret("play_move_gomoku", r.val, <<>>)
    /\ snap' = IF r.placed THEN Placed(board, Wrap(point), color) ELSE NoSnap
    /\ UNCHANGED <<size, goVars>>

\* GoBoard.play_move(point, color), point an index
GoBoard_play_move(point, color) ==
    LET r == PlaceResult(board, point, color) IN
    /\ r.placed => Cardinality(Stones(board)) < MaxStones
    /\ board' = r.board
    /\ current_player' = IF r.placed THEN opponent(color) ELSE current_player
    /\ ret' = Ret("GoBoard.play_move", r.val, <<>>)
    /\ snap' = IF r.placed THEN Placed(board, Wrap(point), color) ELSE NoSnap
    /\ UNCHANGED <<size, goVars>>

\* GoBoard.play_move(PASS, color)
GoBoard_play_move_pass(color) ==
    /\ ko_recapture' = None
    /\ current_player' = opponent(color)
    /\ ret' = Ret("GoBoard.play_move", "True", <<PASS>>)
    /\ snap' = NoSnap
    /\ UNCHANGED <<size, board, liberty_of, neighbors>>

\* an undo whose loop starts at the second point of the list
undo_from_second(b, point_list) ==
    [p \in DOMAIN b |->
        IF \E i \in 2 .. Len(point_list) : point_list[i] = p THEN EMPTY ELSE b[p]]

\* the array after undo_all_move(point_list)
RECURSIVE undo_board(_, _)
undo_board(b, point_list) ==
    IF point_list = <<>> THEN b
    ELSE undo_board([b EXCEPT ![Head(point_list)] = EMPTY], Tail(point_list))

\* GoBoard.undo_all_move(point_list), called with points that were played
undo_all_move(point_list) ==
    /\ \A i \in 1 .. Len(point_list) : point_list[i] \in Stones(board)
    /\ board' = undo_board(board, point_list)
    /\ ret' = Ret("undo_all_move", None, point_list)
    /\ snap' = IF point_list = <<snap.point>> /\ ~snap.undone
               THEN [snap EXCEPT !.point = 0 - 1, !.undone = TRUE]
               ELSE NoSnap
    /\ UNCHANGED <<size, current_player, goVars>>

(* -------------- SimpleGoBoard.play_move and is_legal ------------------- *)

\* what a search that finds nothing returns, where the code returns None and
\* the value is compared with points
NoPoint == 0 - 1

\* SimpleGoBoard.neighbors_of_color(point, color)
neighbors_of_color(b, point, color) == SelectSeq(neighbors[point], LAMBDA nb : b[nb] = color)

\* SimpleGoBoard.find_neighbor_of_color(point, color)
find_neighbor_of_color(b, point, color) ==
    IF neighbors_of_color(b, point, color) = <<>> THEN NoPoint
    ELSE Head(neighbors_of_color(b, point, color))

\* SimpleGoBoard._stone_has_liberty(stone)
stone_has_liberty(b, stone) == find_neighbor_of_color(b, stone, EMPTY) # NoPoint

\* SimpleGoBoard._is_surrounded(point, color)
is_surrounded(b, point, color) ==
    \A i \in 1 .. Len(neighbors[point]) : b[neighbors[point][i]] = color

\* the marker of _block_of as it grows: the marked points and the neighbours
\* of their colour
RECURSIVE block_grow(_, _, _)
block_grow(b, color, marked) ==
    IF \A p \in marked : \A i \in 1 .. Len(neighbors[p]) :
            b[neighbors[p][i]] = color => neighbors[p][i] \in marked
    THEN marked
    ELSE block_grow(b, color,
                    marked \cup {nb \in AllPoints :
                                    \E p \in marked : \E i \in 1 .. Len(neighbors[p]) :
                                        nb = neighbors[p][i] /\ b[nb] = color})

\* SimpleGoBoard._block_of(stone): the points its marker sets
block_of(b, stone) == block_grow(b, b[stone], {stone})

\* SimpleGoBoard._get_liberty(block): the liberty of the first stone, in
\* ascending order, that has one
get_liberty(b, block) ==
    IF \A stone \in block : ~stone_has_liberty(b, stone) THEN NoPoint
    ELSE find_neighbor_of_color(b, CHOOSE stone \in block :
                                       /\ stone_has_liberty(b, stone)
                                       /\ \A t \in block : stone_has_liberty(b, t) => stone <= t,
                                EMPTY)

\* SimpleGoBoard._has_liberty(block): what it returns and the liberty_of it leaves
has_liberty(b, lo, block) ==
    [found |-> get_liberty(b, block) # NoPoint,
     liberty_of |-> IF get_liberty(b, block) = NoPoint THEN lo
                    ELSE [p \in AllPoints |-> IF p \in block THEN get_liberty(b, block) ELSE lo[p]]]

\* SimpleGoBoard._fast_liberty_check(nb_point)
fast_liberty_check(b, lo, nb_point) ==
    \/ lo[nb_point] # NULLPOINT /\ b[lo[nb_point]] = EMPTY
    \/ stone_has_liberty(b, nb_point)

\* SimpleGoBoard._detect_capture(nb_point): `captured` and the liberty_of it leaves
detect_capture(b, lo, nb_point) ==
    IF fast_liberty_check(b, lo, nb_point) THEN [captured |-> FALSE, liberty_of |-> lo]
    ELSE [captured |-> ~has_liberty(b, lo, block_of(b, nb_point)).found,
          liberty_of |-> has_liberty(b, lo, block_of(b, nb_point)).liberty_of]

\* SimpleGoBoard._detect_captures: the loop from the i-th opposing neighbour on
RECURSIVE detect_captures(_, _, _, _)
detect_captures(b, lo, nbs, i) ==
    IF i > Len(nbs) THEN [captured |-> FALSE, liberty_of |-> lo]
    ELSE IF detect_capture(b, lo, nbs[i]).captured THEN detect_capture(b, lo, nbs[i])
    ELSE detect_captures(b, detect_capture(b, lo, nbs[i]).liberty_of, nbs, i + 1)

\* the general case of is_legal, the stone already written: `legal` and the
\* liberty_of it leaves
legal_after(placed, point, capture) ==
    IF capture.captured \/ stone_has_liberty(placed, point)
    THEN [legal |-> TRUE, liberty_of |-> capture.liberty_of]
    ELSE [legal |-> has_liberty(placed, capture.liberty_of, block_of(placed, point)).found,
          liberty_of |-> has_liberty(placed, capture.liberty_of, block_of(placed, point)).liberty_of]

\* SimpleGoBoard.is_legal(point, color), point an index: what it returns or
\* raises, and the array and liberty_of it leaves
is_legal_result(b, lo, ko, point, color) ==
    IF ~IndexOK(point) THEN [val |-> "IndexError", board |-> b, liberty_of |-> lo]
    ELSE IF b[Wrap(point)] # EMPTY THEN [val |-> "False", board |-> b, liberty_of |-> lo]
    ELSE IF ToString(point) = ko THEN [val |-> "False", board |-> b, liberty_of |-> lo]
    ELSE [val |-> IF legal_after([b EXCEPT ![Wrap(point)] = color], Wrap(point),
                                 detect_captures([b EXCEPT ![Wrap(point)] = color], lo,
                                     neighbors_of_color([b EXCEPT ![Wrap(point)] = color],
                                                        Wrap(point), opponent(color)), 1)).legal
                  THEN "True" ELSE "False",
          board |-> [[b EXCEPT ![Wrap(point)] = color] EXCEPT ![Wrap(point)] = EMPTY],
          liberty_of |-> legal_after([b EXCEPT ![Wrap(point)] = color], Wrap(point),
                                 detect_captures([b EXCEPT ![Wrap(point)] = color], lo,
                                     neighbors_of_color([b EXCEPT ![Wrap(point)] = color],
                                                        Wrap(point), opponent(color)), 1)).liberty_of]

\* SimpleGoBoard.is_legal(point, color), `noted` being what is kept of the
\* arguments
is_legal_noted(point, color, noted) ==
    /\ \E r \in {is_legal_result(board, liberty_of, ko_recapture, point, color)} :
          /\ board' = r.board
          /\ liberty_of' = r.liberty_of
          /\ ret' = Ret("is_legal", r.val, noted)
    /\ snap' = NoSnap
    /\ UNCHANGED <<size, current_player, ko_recapture, neighbors>>

\* SimpleGoBoard.is_legal(point, color)
is_legal(point, color) == is_legal_noted(point, color, <<point, color>>)

\* the stones of a block taken off the board
captured_block(b, lo, block, nb_point) ==
    [board |-> [p \in AllPoints |-> IF p \in block THEN EMPTY ELSE b[p]],
     liberty_of |-> [p \in AllPoints |-> IF p \in block THEN NULLPOINT ELSE lo[p]],
     single |-> IF Cardinality(block) = 1 THEN nb_point ELSE NoPoint]

\* SimpleGoBoard._detect_and_process_capture(nb_point), the liberty test of
\* the block made: the array and liberty_of it leaves, and the stone it returns
process_capture(b, lo, nb_point, tested) ==
    IF tested.found THEN [board |-> b, liberty_of |-> tested.liberty_of, single |-> NoPoint]
    ELSE captured_block(b, lo, block_of(b, nb_point), nb_point)

\* SimpleGoBoard._detect_and_process_capture(nb_point)
detect_and_process_capture(b, lo, nb_point) ==
    IF fast_liberty_check(b, lo, nb_point)
    THEN [board |-> b, liberty_of |-> lo, single |-> NoPoint]
    ELSE process_capture(b, lo, nb_point, has_liberty(b, lo, block_of(b, nb_point)))

\* what one turn of the loop over the neighbours adds to the state of play_move
after_capture(st, done) ==
    [board |-> done.board, liberty_of |-> done.liberty_of,
     single_captures |-> IF done.single = NoPoint THEN st.single_captures
                         ELSE Append(st.single_captures, done.single)]

\* the loop of play_move over neighbors[point], from the i-th neighbour on
RECURSIVE capture_loop(_, _, _, _)
capture_loop(st, nbs, i, opp_color) ==
    IF i > Len(nbs) THEN st
    ELSE IF st.board[nbs[i]] # opp_color THEN capture_loop(st, nbs, i + 1, opp_color)
    ELSE capture_loop(after_capture(st, detect_and_process_capture(st.board, st.liberty_of, nbs[i])),
                      nbs, i + 1, opp_color)

\* the end of play_move: the suicide test of the block of the stone, then ko
\* and the side to move
finish_move(st, point, color, in_enemy_eye, ko, player, own) ==
    IF ~stone_has_liberty(st.board, point) /\ ~own.found
    THEN [val |-> "False", board |-> [st.board EXCEPT ![point] = EMPTY],
          liberty_of |-> st.liberty_of, ko_recapture |-> ko, current_player |-> player]
    ELSE [val |-> "True", board |-> st.board,
          liberty_of |-> IF stone_has_liberty(st.board, point) THEN st.liberty_of
                         ELSE own.liberty_of,
          ko_recapture |-> IF in_enemy_eye /\ Len(st.single_captures) = 1
                           THEN ToString(st.single_captures[1]) ELSE None,
          current_player |-> opponent(color)]

\* the general case of play_move after the loop over the neighbours
general_move(st, point, color, in_enemy_eye, ko, player) ==
    finish_move(st, point, color, in_enemy_eye, ko, player,
                has_liberty(st.board, st.liberty_of, block_of(st.board, point)))

\* SimpleGoBoard.play_move(point, color), point an index: what it returns or
\* raises and the fields it leaves
play_move_result(b, lo, ko, player, point, color) ==
    IF ~IndexOK(point)
    THEN [val |-> "IndexError", board |-> b, liberty_of |-> lo, ko_recapture |-> ko,
          current_player |-> player]
    ELSE IF b[Wrap(point)] # EMPTY \/ ToString(point) = ko
    THEN [val |-> "False", board |-> b, liberty_of |-> lo, ko_recapture |-> ko,
          current_player |-> player]
    ELSE general_move(capture_loop([board |-> [b EXCEPT ![Wrap(point)] = color],
                                    liberty_of |-> lo, single_captures |-> <<>>],
                                   neighbors[Wrap(point)], 1, opponent(color)),
                      Wrap(point), color, is_surrounded(b, Wrap(point), opponent(color)),
                      ko, player)

\* SimpleGoBoard.play_move(point, color), on a board with fewer than `most`
\* stones when the stone is placed
play_move_within(point, color, most) ==
    /\ \E r \in {play_move_result(board, liberty_of, ko_recapture, current_player, point, color)} :
          /\ r.val = "True" => Cardinality(Stones(board)) < most
          /\ board' = r.board
          /\ liberty_of' = r.liberty_of
          /\ ko_recapture' = r.ko_recapture
          /\ current_player' = r.current_player
          /\ ret' = Ret("play_move", r.val, <<>>)
          /\ snap' = IF r.val = "True" THEN Placed(board, Wrap(point), color) ELSE NoSnap
    /\ UNCHANGED <<size, neighbors>>

\* SimpleGoBoard.play_move(point, color)
play_move(point, color) == play_move_within(point, color, MaxStones)

\* a copy whose array is the array of the board it was made from
GoBoard_copy_shared(b, ko, player) ==
    [board |-> b, ko_recapture |-> ko, current_player |-> player, shared |-> TRUE]

\* GoBoard.copy(): a new board with the fields of this one and np.copy of
\* its array
GoBoard_copy(b, ko, player) ==
    [board |-> b, ko_recapture |-> ko, current_player |-> player, shared |-> FALSE]

\* GoBoard.is_legal(point, color), point an index: play_move on a copy;
\* what is written into an array the copy shares is written into this board
GoBoard_is_legal(point, color) ==
    /\ \E board_copy \in {GoBoard_copy(board, ko_recapture, current_player)} :
         \E r \in {PlaceResult(board_copy.board, point, color)} :
            /\ board' = IF board_copy.shared THEN r.board ELSE board
            /\ ret' = Ret("GoBoard.is_legal", r.val, <<point, color>>)
    /\ snap' = NoSnap
    /\ UNCHANGED <<size, current_player, goVars>>

(* ------------------- terminal detection: SimpleGoBoard ------------------ *)

\* self.board[p] as Python reads it: "IndexError" outside [-maxpoint, maxpoint)
get_color(b, p) == IF IndexOK(p) THEN b[Wrap(p)] ELSE "IndexError"

\* the loop going on over every cell that is not EMPTY
RECURSIVE walk_count_not_empty(_, _, _, _, _)
walk_count_not_empty(b, color, p, d, count) ==
    IF ~IndexOK(p + d) THEN 0 - 1
    ELSE IF get_color(b, p + d) # EMPTY
    THEN IF count + 1 = WinLength THEN count + 1
         ELSE walk_count_not_empty(b, color, p + d, d, count + 1)
    ELSE count

\* one `while True` loop of _point_direction_check_connect_gomoko: the count
\* it leaves, started at `count` on p, stepping by d; -1 when self.board[p]
\* raises IndexError
RECURSIVE walk_count(_, _, _, _, _)
walk_count(b, color, p, d, count) ==
    IF ~IndexOK(p + d) THEN 0 - 1
    ELSE IF get_color(b, p + d) = color
    THEN IF count + 1 = WinLength THEN count + 1
         ELSE walk_count(b, color, p + d, d, count + 1)
    ELSE count

\* the indices at which that loop reads self.board
RECURSIVE walk_reads(_, _, _, _, _)
walk_reads(b, color, p, d, count) ==
    IF ~IndexOK(p + d) THEN {p + d}
    ELSE IF get_color(b, p + d) = color /\ count + 1 # WinLength
    THEN {p + d} \cup walk_reads(b, color, p + d, d, count + 1)
    ELSE {p + d}

\* the indices at which _point_direction_check_connect_gomoko(point, shift)
\* reads self.board after the one of point: the second loop runs when the
\* first has not raised
direction_check_reads(b, point, shift) ==
    walk_reads(b, b[point], point, shift, 1)
    \cup (IF walk_count(b, b[point], point, shift, 1) < 0 THEN {}
          ELSE walk_reads(b, b[point], point, 0 - shift,
                          walk_count(b, b[point], point, shift, 1)))

\* SimpleGoBoard._point_direction_check_connect_gomoko(point, shift)
point_direction_check_connect_gomoko(b, point, shift) ==
    LET color == b[point]
        forward == walk_count(b, color, point, shift, 1)
        count == IF forward < 0 THEN forward
                 ELSE walk_count(b, color, point, 0 - shift, forward)
    IN  IF count < 0 THEN "IndexError"
        ELSE IF count > WinLength THEN "AssertionError"
        ELSE IF count = WinLength THEN "True" ELSE "False"

\* the shifts point_check_game_end_gomoku tries, in its order
Shifts == <<1, NS, NS + 1, NS - 1>>

\* SimpleGoBoard.point_check_game_end_gomoku(point): the first answer that is
\* not False among the four directions, in order
RECURSIVE point_check_from(_, _, _)
point_check_from(b, point, i) ==
    IF i > Len(Shifts) THEN "False"
    ELSE LET r == point_direction_check_connect_gomoko(b, point, Shifts[i])
         IN  IF r = "False" THEN point_check_from(b, point, i + 1) ELSE r

\* the point check with the horizontal direction left out
point_check_no_horizontal(b, point) == point_check_from(b, point, 2)

point_check_game_end_gomoku(b, point) == point_check_from(b, point, 1)

\* the scan with every point checked before the answers are looked at
scan_all_points(b, points) ==
    LET answers == {point_check_game_end_gomoku(b, p) : p \in points}
    IN  IF answers \ {"True", "False"} # {}
        THEN CHOOSE a \in answers : a \notin {"True", "False"}
        ELSE IF "True" \in answers THEN "True" ELSE "False"

\* `for point in points: if point_check(point): return True`, points ascending:
\* the answer at the lowest point whose answer is not False
scan_points(b, points) ==
    LET hits == {p \in points : point_check_game_end_gomoku(b, p) # "False"}
    IN  IF hits = {} THEN "False"
        ELSE point_check_game_end_gomoku(b, CHOOSE p \in hits : \A q \in hits : p <= q)

\* the scan with BLACK's stones taken before WHITE's
check_black_first(b) ==
    LET white == scan_points(b, where1d(b, WHITE))
        black == scan_points(b, where1d(b, BLACK))
    IN  IF black = "True" THEN <<"True", BLACK>>
        ELSE IF black # "False" THEN <<black, None>>
        ELSE IF white = "True" THEN <<"True", WHITE>>
        ELSE IF white # "False" THEN <<white, None>>
        ELSE <<"False", None>>

\* SimpleGoBoard.check_game_end_gomoku(): <<True, colour>>, <<False, None>>
check_game_end_gomoku(b) ==
    LET white == scan_points(b, where1d(b, WHITE))
        black == scan_points(b, where1d(b, BLACK))
    IN  IF white = "True" THEN <<"True", WHITE>>
        ELSE IF white # "False" THEN <<white, None>>
        ELSE IF black = "True" THEN <<"True", BLACK>>
        ELSE IF black # "False" THEN <<black, None>>
        ELSE <<"False", None>>

(* ---------------------- terminal detection: GoBoard -------------------- *)

\* `while self.get_color(pt) == EMPTY: diag.append(pt); pt += step`, on the
\* board as reset() left it
RECURSIVE diag_walk(_, _, _)
diag_walk(b, p, step) ==
    IF get_color(b, p) = EMPTY THEN <<p>> \o diag_walk(b, p + step, step) ELSE <<>>

\* `if len(diag) >= 5: self.diags.append(diag)`
keep_diag(d) == IF Len(d) >= WinLength THEN <<d>> ELSE <<>>

rows == [i \in 1 .. size |-> [k \in 1 .. size |-> row_start(i) + k - 1]]

cols == [i \in 1 .. size |-> [k \in 1 .. size |-> row_start(1) + i - 1 + (k - 1) * NS]]

\* SE diagonals from (1,1) .. (1,n)
RECURSIVE diags_first_row(_, _)
diags_first_row(b, i) ==
    IF i >= row_start(1) + size THEN <<>>
    ELSE keep_diag(diag_walk(b, i, NS + 1)) \o diags_first_row(b, i + 1)

\* SE and NE diagonals from (2,1) .. (n,1)
RECURSIVE diags_first_col(_, _)
diags_first_col(b, i) ==
    IF i >= row_start(size) + 1 THEN <<>>
    ELSE keep_diag(diag_walk(b, i, NS + 1)) \o keep_diag(diag_walk(b, i, 1 - NS))
         \o diags_first_col(b, i + NS)

\* NE diagonals from (n,2) on, rightwards
RECURSIVE diags_last_row(_, _)
diags_last_row(b, i) ==
    IF i >= row_start(size) + 1 + size THEN <<>>
    ELSE keep_diag(diag_walk(b, i, 1 - NS)) \o diags_last_row(b, i + 1)

\* self.diags without the last loop (the NE diagonals from the bottom row)
diags_without_last_row(b) ==
    diags_first_row(b, row_start(1)) \o diags_first_col(b, row_start(1) + NS)

\* GoBoard.calculate_rows_cols_diags: self.diags, walked on the array b that
\* reset() has just filled
diags_on(b) ==
    diags_first_row(b, row_start(1)) \o diags_first_col(b, row_start(1) + NS)
    \o diags_last_row(b, row_start(size) + 1)

diags == diags_on(EmptyBoard)

\* calculate_rows_cols_diags returns before setting anything when size < 5
has_lines == size >= WinLength

\* GoBoard.has_five_in_list(list): scanning from position i with (prev, counter)
RECURSIVE five_in_list_from(_, _, _, _, _)
five_in_list_from(b, list, i, prev, counter) ==
    IF i > Len(list) THEN EMPTY
    ELSE LET c == b[list[i]]
             n == IF c = prev THEN counter + 1 ELSE 1
         IN  IF n = WinLength /\ c # EMPTY THEN c
             ELSE five_in_list_from(b, list, i + 1, c, n)

\* the scan of a list that leaves out its first cell
has_five_after_first(b, list) == five_in_list_from(b, list, 2, BORDER, 1)

\* GoBoard.has_five_in_list(list): prev = BORDER, counter = 1 at the start
has_five_in_list(b, list) == five_in_list_from(b, list, 1, BORDER, 1)

\* the first non-EMPTY answer of has_five_in_list over lists, in order
RECURSIVE first_five(_, _, _)
first_five(b, lists, i) ==
    IF i > Len(lists) THEN EMPTY
    ELSE LET r == has_five_in_list(b, lists[i])
         IN  IF r # EMPTY THEN r ELSE first_five(b, lists, i + 1)

\* GoBoard.detect_five_in_a_row(): rows, then columns, then diagonals
detect_five_in_a_row(b) ==
    IF ~has_lines THEN "AttributeError"
    ELSE first_five(b, rows \o cols \o diags, 1)


(* ------------------------------ positions ------------------------------ *)

\* the array with the cells of S set to color
Paint(b, S, color) == [p \in DOMAIN b |-> IF p \in S THEN color ELSE b[p]]

ShiftSet == {Shifts[i] : i \in 1 .. Len(Shifts)}

\* row and column of p both in 1 .. size
on_board(p) ==
    /\ point_to_coord(p)[1] \in 1 .. size
    /\ point_to_coord(p)[2] \in 1 .. size

\* a straight segment of len cells from start along shift; its cells
OnRun(p, r) == \E k \in 0 .. (r.len - 1) : p = r.start + k * r.shift

Cells(r) == {r.start + k * r.shift : k \in 0 .. (r.len - 1)}

\* the segments of the given lengths that lie on the board
Runs(lens) ==
    {r \in [start : AllPoints, shift : ShiftSet, len : lens] :
        \A k \in 0 .. (r.len - 1) : on_board(r.start + k * r.shift)}

OneStone(q) == [start |-> q, shift |-> 1, len |-> 1]

\* the on-board cells on the line of r, from two before it to two after it
Around(r) == {q \in {r.start + k * r.shift : k \in (0 - 2) .. (r.len + 1)} : on_board(q)}

\* the empty board with r painted c and then r2 painted c2 over it
TwoRuns(r, c, r2, c2) ==
    [p \in AllPoints |->
        IF OnRun(p, r2) THEN c2 ELSE IF OnRun(p, r) THEN c ELSE EmptyBoard[p]]

NearWin == (WinLength - 1) .. (WinLength + 1)

\* positions every one of which a sequence of placements reaches: the empty
\* board, one stone, a run of four to six stones with one more stone of
\* either colour on its line (on the run itself: the run alone, or the run
\* broken), and a run of five crossed or accompanied by a run of five of the
\* other colour
RunPosition ==
    \/ board = EmptyBoard
    \/ \E q \in InteriorPoints, c \in Colors : board = Paint(EmptyBoard, {q}, c)
    \/ \E r \in Runs(NearWin), c \in Colors, c2 \in Colors :
          \E q \in Around(r) : board = TwoRuns(r, c, OneStone(q), c2)

CrossPosition ==
    \E r \in Runs({WinLength}), r2 \in Runs({WinLength}), c \in Colors :
        board = TwoRuns(r, c, r2, opponent(c))

InitTerminal ==
    \E s \in MinSize .. MaxSize : size = s /\ (RunPosition \/ CrossPosition) /\ FreshFields

InitDirection == \E s \in MinSize .. MaxSize : size = s /\ RunPosition /\ FreshFields

(* ----------------------- calls of the detectors ------------------------ *)

Call_check_game_end_gomoku ==
    /\ ret.op = "init"
    /\ ret' = Ret("check_game_end_gomoku", check_game_end_gomoku(board)[1],
                  check_game_end_gomoku(board)[2])
    /\ UNCHANGED <<size, board, current_player, goVars, snap>>

Call_point_direction_check(point, shift) ==
    /\ ret.op = "init"
    /\ point \in Stones(board)
    /\ ret' = Ret("point_direction_check",
                  point_direction_check_connect_gomoko(board, point, shift),
                  <<point, shift>>)
    /\ UNCHANGED <<size, board, current_player, goVars, snap>>

Call_detect_five_in_a_row ==
    /\ ret.op = "init"
    /\ ret' = Ret("detect_five_in_a_row", detect_five_in_a_row(board), <<>>)
    /\ UNCHANGED <<size, board, current_player, goVars, snap>>

NextTerminal ==
    \/ Call_check_game_end_gomoku
    \/ Call_detect_five_in_a_row

\* a position, then one call of a whole-board detector
SpecTerminal == InitTerminal /\ [][NextTerminal]_vars

NextDirection ==
    \E point \in Stones(board), shift \in ShiftSet : Call_point_direction_check(point, shift)

\* a position, then one call of the one-direction check on one of its stones
SpecDirection == InitDirection /\ [][NextDirection]_vars

\* a run of six stones and a second run of five or six stones, of either
\* colour, anywhere on the board
LongRunPosition ==
    \E r \in Runs({WinLength + 1}), r2 \in Runs({WinLength, WinLength + 1}),
       c \in Colors, c2 \in Colors :
        board = TwoRuns(r, c, r2, c2)

\* on the smallest board a run of six fits on
InitScan == size = WinLength + 1 /\ LongRunPosition /\ FreshFields

NextScan == Call_check_game_end_gomoku

\* a position with a run of more than five stones, then one full scan
SpecScan == InitScan /\ [][NextScan]_vars


(* ------------------------------ rollouts ------------------------------- *)

\* random.shuffle(points): every order of the points
Shuffles(S) ==
    {o \in [1 .. Cardinality(S) -> S] : \A i, j \in 1 .. Cardinality(S) : o[i] = o[j] => i = j}

\* the loop of random_policy from the i-th point of the order on: the winner
\* it ends with, the array then, and the placements made (point, colour)
RECURSIVE policy_loop(_, _, _, _, _, _)
policy_loop(b, order, i, color, winner, made) ==
    IF i > Len(order) THEN [winner |-> winner, board |-> b, made |-> made]
    ELSE LET placed == [b EXCEPT ![order[i]] = color]
             found == detect_five_in_a_row(placed)
             list == Append(made, <<order[i], color>>)
         IN  IF found # EMPTY THEN [winner |-> found, board |-> placed, made |-> list]
             ELSE policy_loop(placed, order, i + 1, opponent(color), found, list)

\* GoBoard.random_policy(opponent) under the shuffle `order`: the value it
\* returns or the exception it raises, the array it leaves, its placements
random_policy_result(b, order, color) ==
    LET first == detect_five_in_a_row(b) IN
    IF first = "AttributeError" THEN [winner |-> first, board |-> b, made |-> <<>>]
    ELSE LET r == policy_loop(b, order, 1, color, first, <<>>)
         IN  [r EXCEPT !.board = undo_board(r.board, [i \in 1 .. Len(r.made) |-> r.made[i][1]])]

\* the array before the call (no placement to take back)
Before(b) == [NoSnap EXCEPT !.board = b]

\* GoBoard.random_policy(color)
random_policy(color) ==
    /\ \E order \in Shuffles(get_empty_points(board)) :
       \E r \in {random_policy_result(board, order, color)} :
          /\ board' = r.board
          /\ ret' = Ret("random_policy", r.winner,
                        [color |-> color, made |-> r.made, player |-> current_player])
    /\ snap' = Before(board)
    /\ UNCHANGED <<size, current_player, goVars>>

\* the winners random_policy(color) can return on b, over all shuffles
Winners(b, color) ==
    {random_policy_result(b, order, color).winner : order \in Shuffles(get_empty_points(b))}

\* the numbers of wins that n calls can give `color` when each call returns
\* one of `winners`
WinsAmong(winners, color, n) ==
    {w \in 0 .. n : /\ w > 0 => color \in winners
                    /\ w < n => winners \ {color} # {}}

\* the numbers of wins that n calls of random_policy(opponent) can give `color` on b
PossibleWins(b, color, n) == WinsAmong(Winners(b, opponent(color)), color, n)

\* the win rate 1.0 on the scale of the win counts
FullRate(n) == IF n = 0 THEN 1 ELSE n

\* one turn of the loop of find_all_potential_moves on `move`: the values, n
\* times the win rate, it can record for the move; -1 when
\* detect_five_in_a_row raises AttributeError, -2 when
\* `win / simulation_amount` raises ZeroDivisionError
rates_after(placed, found, color, n) ==
    IF found = "AttributeError" THEN {0 - 1}
    ELSE IF found = color THEN {FullRate(n)}
    ELSE IF get_empty_points(placed) = {} THEN {0}
    ELSE IF n = 0 THEN {0 - 2}
    ELSE PossibleWins(placed, color, n)

move_rates(b, move, color, n) ==
    rates_after([b EXCEPT ![move] = color],
                detect_five_in_a_row([b EXCEPT ![move] = color]), color, n)

\* GoBoard.find_all_potential_moves under the shuffle `order`, the i-th move
\* of which gets rate[i]: what it returns or raises, the array it leaves, the
\* move it returns (-1: none)
find_all_result(b, order, color, rate) ==
    LET raised == {i \in 1 .. Len(order) : rate[i] < 0}
    IN  IF raised # {}
        THEN LET i == CHOOSE k \in raised : \A l \in raised : k <= l
             IN  [val |-> IF rate[i] = 0 - 1 THEN "AttributeError" ELSE "ZeroDivisionError",
                  board |-> [b EXCEPT ![order[i]] = color], move |-> 0 - 1]
        ELSE IF Len(order) = 0 THEN [val |-> "[]", board |-> b, move |-> 0 - 1]
        ELSE LET best == {i \in 1 .. Len(order) : \A k \in 1 .. Len(order) : rate[k] <= rate[i]}
                 i == CHOOSE k \in best : \A l \in best : k <= l
             IN  [val |-> "move", board |-> b, move |-> order[i]]

\* GoBoard.find_all_potential_moves(simulation_amount)
find_all_potential_moves(n) ==
    /\ \E rates \in {{<<m, move_rates(board, m, current_player, n)>> :
                          m \in get_empty_points(board)}} :
       \E order \in Shuffles(get_empty_points(board)) :
       \E rate \in [1 .. Len(order) -> UNION {x[2] : x \in rates}] :
          /\ \A i \in 1 .. Len(order) : <<order[i], rate[i]>> \in UNION {{x[1]} \X x[2] : x \in rates}
          /\ \E r \in {find_all_result(board, order, current_player, rate)} :
                /\ board' = r.board
                /\ ret' = Ret("find_all_potential_moves", r.val,
                              [n |-> n, move |-> r.move, player |-> current_player])
    /\ snap' = Before(board)
    /\ UNCHANGED <<size, current_player, goVars>>

\* a full board without three in a row: BLACK BLACK WHITE WHITE along every
\* row, each row two cells further than the one above
DrawPattern ==
    [p \in AllPoints |->
        IF ~on_board(p) THEN BORDER
        ELSE IF ((p % NS) + 2 * (p \div NS)) % 4 \in {0, 1} THEN BLACK ELSE WHITE]

\* the shorter of a and b
Min(a, b) == IF a <= b THEN a ELSE b

\* positions a sequence of placements reaches: the full board, with a stretch
\* of a row left as it is or set to one colour, and up to MaxFill cells of a
\* second stretch, of any line, empty
RolloutPosition ==
    \E r \in Runs({Min(size, WinLength)}), r2 \in Runs({Min(size, WinLength)}),
       c \in Colors \cup {None} :
        \E H \in SUBSET Cells(r2) :
            /\ r.shift = 1
            /\ Cardinality(H) <= MaxFill
            /\ board = [p \in AllPoints |->
                           IF p \in H THEN EMPTY
                           ELSE IF OnRun(p, r) /\ c # None THEN c
                           ELSE DrawPattern[p]]

\* the full board with a row of one colour and one cell more than MaxFill of
\* a column empty
SparePosition ==
    \E r \in Runs({WinLength}), r2 \in Runs({WinLength}), c \in Colors :
        \E H \in SUBSET Cells(r2) :
            /\ r.shift = 1
            /\ r2.shift = NS
            /\ Cardinality(H) = MaxFill + 1
            /\ board = [p \in AllPoints |->
                           IF p \in H THEN EMPTY
                           ELSE IF OnRun(p, r) THEN c
                           ELSE DrawPattern[p]]

\* on boards up to the smallest one a line of five fits on, either colour to move
InitRollout ==
    \E s \in MinSize .. WinLength, player \in Colors :
        /\ size = s
        /\ RolloutPosition \/ (s = WinLength /\ SparePosition)
        /\ PositionFields(player)

Call_random_policy(color) == ret.op = "init" /\ random_policy(color)

Call_find_all_potential_moves(n) == ret.op = "init" /\ find_all_potential_moves(n)

NextRollout ==
    \/ \E color \in Colors : Call_random_policy(color)
    \/ \E n \in 0 .. MaxSimulations : Call_find_all_potential_moves(n)

\* a position, then one call of the rollout or of the rollout-scored move choice
SpecRollout == InitRollout /\ [][NextRollout]_vars

(* ------------------------------- ranker -------------------------------- *)

\* a loop that adds two for every stone
counted_twice(rest) == <<rest[1] + 2, rest[2]>>

\* `counter += 1` on what the rest of the loop leaves
counted(rest) == <<rest[1] + 1, rest[2]>>

\* one `for` loop of analyze_hor / _ver / _left_diag / _right_diag from (x, y),
\* stepping by (dx, dy) while both coordinates stay in 1 .. size: the stones
\* of `color` it counts and what it adds to has_empty_end
RECURSIVE count_side(_, _, _, _, _, _)
count_side(b, color, x, y, dx, dy) ==
    IF (x + dx) \notin 1 .. size \/ (y + dy) \notin 1 .. size THEN <<0, 0>>
    ELSE IF b[pt(x + dx, y + dy)] = color
    THEN counted(count_side(b, color, x + dx, y + dy, dx, dy))
    ELSE IF b[pt(x + dx, y + dy)] = EMPTY THEN <<0, 1>>
    ELSE <<0, 0>>

\* `if has_empty_end != 2 and counter < 4: counter = 0`
both_sides(first, second) ==
    IF first[2] + second[2] # 2 /\ first[1] + second[1] < WinLength - 1 THEN 0
    ELSE first[1] + second[1]

\* the counter the two loops from point along (dx, dy) and against it leave
analyze_line(b, point, color, dx, dy) ==
    both_sides(count_side(b, color, point \div NS, point % NS, dx, dy),
               count_side(b, color, point \div NS, point % NS, 0 - dx, 0 - dy))

\* GoBoard.analyze_hor(point, color): the counter it returns
analyze_hor(b, point, color) == analyze_line(b, point, color, 0, 1)

\* GoBoard.analyze_ver(point, color)
analyze_ver(b, point, color) == analyze_line(b, point, color, 1, 0)

\* GoBoard.analyze_left_diag(point, color)
analyze_left_diag(b, point, color) == analyze_line(b, point, color, 1, 1)

\* GoBoard.analyze_right_diag(point, color)
analyze_right_diag(b, point, color) == analyze_line(b, point, color, 0 - 1, 1)

\* the largest member of a non-empty set of numbers
Max(S) == CHOOSE v \in S : \A w \in S : w <= v

\* the four [point, counter] pairs mapping_player_heuristic collects for one
\* empty point, in the order it appends them
potential_moves(b, point, color) ==
    <<analyze_hor(b, point, color), analyze_ver(b, point, color),
      analyze_left_diag(b, point, color), analyze_right_diag(b, point, color)>>

\* the entry of potential_move_dict for one point after the first i pairs:
\* the first pair inserts its counter, a later pair replaces the entry only
\* when its counter is greater
RECURSIVE dict_entry(_, _)
dict_entry(pairs, i) ==
    IF i = 1 THEN pairs[1]
    ELSE IF pairs[i] > dict_entry(pairs, i - 1) THEN pairs[i]
    ELSE dict_entry(pairs, i - 1)

\* the dictionary when every pair overwrites the entry of its point
mapping_last_pair(b, color) ==
    [p \in get_empty_points(b) |-> potential_moves(b, p, color)[4]]

\* GoBoard.mapping_player_heuristic(color): potential_move_dict
mapping_player_heuristic(b, color) ==
    [p \in get_empty_points(b) |-> dict_entry(potential_moves(b, p, color), 4)]

\* the indices of the array in ascending order, as where1d lists them
PointSeq == [i \in 1 .. maxpoint |-> i - 1]

\* the members of S in ascending order
Ascending(S) == SelectSeq(PointSeq, LAMBDA p : p \in S)

\* the keys of value v in the order GoBoard.mapping_all_heuristic leaves them
\* in: its sort by value is stable and the keys were inserted in where1d's
\* ascending order, so keys of one value stay ascending
keys_of_value(dict, v) == Ascending({p \in DOMAIN dict : dict[p] = v})

\* the five lists of find_move_under_rule, from the two dictionaries
tiers_of(player_dict, opponent_dict) ==
    [Win |-> keys_of_value(player_dict, 4),
     BlockWin |-> keys_of_value(opponent_dict, 4),
     OpenFour |-> keys_of_value(player_dict, 3),
     BlockOpenFour |-> keys_of_value(opponent_dict, 3),
     Random |-> Ascending({p \in DOMAIN player_dict :
                              /\ player_dict[p] \notin {3, 4}
                              /\ opponent_dict[p] \notin {3, 4}})]

\* GoBoard.find_move_under_rule(simulation_amount): the points of the five
\* strings it returns
find_move_under_rule(b, color) ==
    tiers_of(mapping_player_heuristic(b, color), mapping_player_heuristic(b, opponent(color)))

Call_find_move_under_rule ==
    /\ ret.op = "init"
    /\ ret' = Ret("find_move_under_rule", "tiers", find_move_under_rule(board, current_player))
    /\ UNCHANGED <<size, board, current_player, goVars, snap>>

NextRank == Call_find_move_under_rule

\* a row stretch of four stones and a stretch of three or four stones of
\* either colour in another direction, painted over it
CornerPosition ==
    \E r \in Runs({WinLength - 1}), r2 \in Runs({WinLength - 2, WinLength - 1}) :
        /\ r.shift = 1
        /\ r2.shift # 1
        /\ \E c \in Colors, c2 \in Colors : board = TwoRuns(r, c, r2, c2)

InitRank ==
    \/ \E s \in MinSize .. MaxSize : size = s /\ RunPosition /\ FreshFields
    \/ \E s \in WinLength .. (WinLength + 1) : size = s /\ CornerPosition /\ FreshFields

\* a position, then one call of the ranker
SpecRank == InitRank /\ [][NextRank]_vars

(* ------------------------- pattern classifier -------------------------- *)

\* patternList of get_pattern_moves: per tier, template -> offsets
patternList ==
    << ("xxxx." :> {0}) @@ ("xxx.x" :> {1}) @@ ("xx.xx" :> {2}) @@ ("x.xxx" :> {3})
           @@ (".xxxx" :> {4}),
       ("oooo." :> {0}) @@ ("ooo.o" :> {1}) @@ ("oo.oo" :> {2}) @@ ("o.ooo" :> {3})
           @@ (".oooo" :> {4}),
       (".xxx.." :> {1}) @@ ("..xxx." :> {4}) @@ (".xx.x." :> {2}) @@ (".x.xx." :> {3}),
       (".ooo.." :> {1, 5}) @@ ("..ooo." :> {0, 4}) @@ (".oo.o." :> {0, 2, 5})
           @@ (".o.oo." :> {0, 3, 5}) @@ ("B.ooo.." :> {0}) @@ ("..ooo.B" :> {6})
           @@ ("x.ooo.." :> {0}) @@ ("..ooo.x" :> {6}) >>

\* patternList of list_solve_point
solvePatternList ==
    << patternList[1], patternList[2], patternList[3],
       (".ooo.." :> {1, 5}) @@ ("..ooo." :> {0, 4}) @@ (".oo.o." :> {2})
           @@ (".o.oo." :> {3}) >>

direction_x == <<1, 0, 1, 0 - 1>>
direction_y == <<0, 1, 1, 1>>

\* the longest string check_pattern builds
MaxHave == 9

\* the character check_pattern appends for the cell at point
\* a BORDER cell read as an empty one
piece_border_as_empty(b, point, color) ==
    IF b[point] \in {EMPTY, BORDER} THEN "."
    ELSE IF b[point] = color THEN "x"
    ELSE "o"

\* the character check_pattern appends for the cell at point
piece(b, point, color) ==
    IF b[point] = EMPTY THEN "."
    ELSE IF b[point] = color THEN "x"
    ELSE IF b[point] = BORDER THEN "B"
    ELSE "o"

\* the first loop of check_pattern with the offsets counted back from point
\* itself instead of from the cell before it
RECURSIVE add_matches_from_point(_, _, _, _, _, _, _)
add_matches_from_point(moveSet, have, point, dx, dy, patterns, i) ==
    IF i > 4 THEN moveSet
    ELSE IF have \in DOMAIN patterns[i]
    THEN [moveSet EXCEPT ![i] = @ \cup {point - dx * dis - dy * NS * dis :
                                            dis \in patterns[i][have]}]
    ELSE add_matches_from_point(moveSet, have, point, dx, dy, patterns, i + 1)

\* the first loop of check_pattern: the first tier i whose table has the
\* string read so far gets the points of its offsets, counted back from point
RECURSIVE add_matches(_, _, _, _, _, _, _)
add_matches(moveSet, have, point, dx, dy, patterns, i) ==
    IF i > 4 THEN moveSet
    ELSE IF have \in DOMAIN patterns[i]
    THEN [moveSet EXCEPT ![i] = @ \cup {point - dx * (dis + 1) - dy * NS * (dis + 1) :
                                            dis \in patterns[i][have]}]
    ELSE add_matches(moveSet, have, point, dx, dy, patterns, i + 1)

\* SimpleGoBoard.check_pattern(point, have, direction_x, direction_y, moveSet,
\* patternList, color, flag): the move sets it leaves
RECURSIVE check_pattern(_, _, _, _, _, _, _, _)
check_pattern(b, point, have, dx, dy, moveSet, patterns, color) ==
    IF ~(0 <= point /\ point < maxpoint) \/ Len(have) = MaxHave
    THEN add_matches(moveSet, have, point, dx, dy, patterns, 1)
    ELSE check_pattern(b, point + dx + dy * NS, have \o piece(b, point, color), dx, dy,
                       add_matches(moveSet, have, point, dx, dy, patterns, 1),
                       patterns, color)

\* the move sets after a set of check_pattern calls that each started from
\* the sets before: add() only ever grows a set, so the calls' additions
\* are merged by union
merged(results) == [i \in 1 .. 4 |-> UNION {r[i] : r \in results}]

\* the loops over the points and the four directions
scan_patterns(b, points, patterns, color) ==
    merged({check_pattern(b, point, "", direction_x[d], direction_y[d],
                          <<{}, {}, {}, {}>>, patterns, color) :
               point \in points, d \in 1 .. 4})

\* the loop run from the lowest-priority tier upwards
RECURSIVE last_tier(_, _)
last_tier(moveSet, i) ==
    IF i < 4 /\ moveSet[4 - i] = {} THEN last_tier(moveSet, i + 1)
    ELSE IF i = 4 THEN 4 ELSE 3 - i

\* `while i<4 and not bool(moveSet[i]): i+=1`, tiers numbered from 0
RECURSIVE first_tier(_, _)
first_tier(moveSet, i) ==
    IF i < 4 /\ moveSet[i + 1] = {} THEN first_tier(moveSet, i + 1) ELSE i

\* what get_pattern_moves returns from its move sets: None when i = 4, else
\* (i, list(moveSet[i]))
pattern_result(moveSet) ==
    [moveSet |-> moveSet,
     i |-> first_tier(moveSet, 0),
     moves |-> IF first_tier(moveSet, 0) = 4 THEN {} ELSE moveSet[first_tier(moveSet, 0) + 1]]

\* SimpleGoBoard.get_pattern_moves(): what it returns
get_pattern_moves(b, color) ==
    pattern_result(scan_patterns(b, AllPoints, patternList, color))

\* SimpleGoBoard.list_solve_point(): it scans the points that are not BORDER
list_solve_point(b, color) ==
    pattern_result(scan_patterns(b, {p \in AllPoints : b[p] # BORDER}, solvePatternList, color))

\* a call of get_pattern_moves
classify_moves ==
    /\ \E r \in {get_pattern_moves(board, current_player)} :
          ret' = Ret("get_pattern_moves", IF r.i = 4 THEN None ELSE "moves", r)
    /\ UNCHANGED <<size, board, current_player, goVars, snap>>

Call_get_pattern_moves == ret.op = "init" /\ classify_moves

Call_list_solve_point ==
    /\ ret.op = "init"
    /\ \E r \in {list_solve_point(board, current_player)} :
          ret' = Ret("list_solve_point", IF r.i = 4 THEN None ELSE "moves", r)
    /\ UNCHANGED <<size, board, current_player, goVars, snap>>

\* the sets of three or four cells of a stretch
Shapes(r) == {S \in SUBSET Cells(r) : Cardinality(S) \in {WinLength - 2, WinLength - 1}}

\* the on-board cells next to the two ends of r, on its line
Beside(r) == {q \in {r.start - r.shift, r.start + r.len * r.shift} : on_board(q)}

\* three or four stones of one colour within five cells of a line, alone or
\* with one more stone of either colour next to an end of the five
PatternOn(stretches) ==
    \E r \in stretches, c \in Colors :
        \E S \in Shapes(r) :
            \/ board = Paint(EmptyBoard, S, c)
            \/ \E q \in Beside(r), c2 \in Colors :
                  board = Paint(Paint(EmptyBoard, S, c), {q}, c2)

PatternPosition == PatternOn(Runs({WinLength}))

\* the same along the first row only
FirstRowPosition ==
    PatternOn({r \in Runs({WinLength}) : r.shift = 1 /\ point_to_coord(r.start)[1] = 1})

\* four stones of one colour on cells that follow each other in the array
\* but not on the board: the last k cells of a row and the first cells of the
\* next row
WrapPosition ==
    \E row \in 1 .. (size - 1), k \in 1 .. (WinLength - 2), c \in Colors :
        board = Paint(EmptyBoard,
                      {row_start(row) + size - j : j \in 1 .. k}
                      \cup {row_start(row + 1) + j : j \in 0 .. (WinLength - 2 - k)}, c)

\* boards up to the smallest that holds the longest template within the grid
\* and within its border (seven characters, one of them a BORDER), and the
\* first row of the smallest board that holds seven characters
InitPattern ==
    \/ \E s \in MinSize .. (WinLength + 1) :
          size = s /\ (board = EmptyBoard \/ PatternPosition \/ WrapPosition) /\ FreshFields
    \/ size = WinLength + 2 /\ FirstRowPosition /\ FreshFields

NextPattern == Call_get_pattern_moves \/ Call_list_solve_point

\* a position, then one call of the classifier
SpecPattern == InitPattern /\ [][NextPattern]_vars

(* ------------------------ alpha-beta search ---------------------------- *)

\* the search stops descending at this depth
max_depth == 5

\* the search's placement of a stone, without a legality test
place(b, point, color) == [b EXCEPT ![point] = color]

\* the search's removal of a stone it placed
remove(b, point) == [b EXCEPT ![point] = EMPTY]

\* what a call of the search returns and leaves: the value of the node, the
\* array, the last candidate that was worth +1 to its parent, and whether a
\* beta cutoff and whether the depth cutoff was taken on the way
Node(value, b, move, cut, deep) ==
    [value |-> value, board |-> b, move |-> move, cut |-> cut, deep |-> deep]

\* the candidate moves of a node, in the order they are tried: the moves of
\* the classifier's first tier that has any, otherwise all empty points
candidates(b, color) ==
    LET tactical == get_pattern_moves(b, color).moves
    IN  IF tactical # {} THEN Ascending(tactical) ELSE Ascending(get_empty_points(b))

\* the larger of a and b
Larger(a, b) == IF a >= b THEN a ELSE b

\* the candidate that was worth +1 most recently
stored_move(move, value, child, point) ==
    IF value = 1 THEN ToString(point) ELSE IF child.move # None THEN child.move ELSE move

RECURSIVE alphabeta(_, _, _, _, _)
RECURSIVE search_moves(_, _, _, _, _, _, _, _)

\* a beta cutoff that returns before the stone is removed
after_child_return_first(color, alpha, beta, depth, moves, i, seen, child) ==
    IF 0 - child.value >= beta
    THEN Node(beta, child.board,
              stored_move(seen.move, 0 - child.value, child, moves[i]),
              TRUE, seen.deep \/ child.deep)
    ELSE search_moves(remove(child.board, moves[i]), color,
                      Larger(alpha, 0 - child.value), beta, depth, moves, i + 1,
                      Node(0, <<>>,
                           stored_move(seen.move, 0 - child.value, child, moves[i]),
                           seen.cut \/ child.cut, seen.deep \/ child.deep))

\* the candidate moves[i] was placed and `child` is what the recursive call
\* returned: the value is negated and the stone removed, then either the beta
\* cutoff is taken or alpha is raised and the next candidate tried
after_child(color, alpha, beta, depth, moves, i, seen, child) ==
    IF 0 - child.value >= beta
    THEN Node(beta, remove(child.board, moves[i]),
              stored_move(seen.move, 0 - child.value, child, moves[i]),
              TRUE, seen.deep \/ child.deep)
    ELSE search_moves(remove(child.board, moves[i]), color,
                      Larger(alpha, 0 - child.value), beta, depth, moves, i + 1,
                      Node(0, <<>>,
                           stored_move(seen.move, 0 - child.value, child, moves[i]),
                           seen.cut \/ child.cut, seen.deep \/ child.deep))

\* the loop over the candidates from moves[i] on; `seen` carries the stored
\* move and the cutoffs of the candidates before
search_moves(b, color, alpha, beta, depth, moves, i, seen) ==
    IF i > Len(moves)
    THEN Node(alpha, b, seen.move, seen.cut, seen.deep)
    ELSE after_child(color, alpha, beta, depth, moves, i, seen,
             alphabeta(place(b, moves[i], color), opponent(color),
                       0 - beta, 0 - alpha, depth + 1))

\* alphabeta(color, alpha, beta, depth) on the array b: a finished game is
\* lost for the side to move, the depth limit or a full board is worth 0,
\* otherwise the candidates are searched
alphabeta(b, color, alpha, beta, depth) ==
    IF check_game_end_gomoku(b)[1] = "True" THEN Node(0 - 1, b, None, FALSE, FALSE)
    ELSE IF depth = max_depth \/ get_empty_points(b) = {}
    THEN Node(0, b, None, FALSE, depth = max_depth)
    ELSE search_moves(b, color, alpha, beta, depth, candidates(b, color), 1,
                      Node(0, <<>>, None, FALSE, FALSE))

\* the move reported with a draw: the first candidate of the root
draw_move(b, color) ==
    IF get_empty_points(b) = {} THEN None ELSE ToString(candidates(b, color)[1])

\* the search from the root, over the whole range of values
root_search(b, color) == alphabeta(b, color, 0 - 1, 1, 0)

\* alphabeta.solve(board), `root` being what the search from the root
\* returned: the root value, the stored winning move or, without one,
\* `sentinel`, and the move for a draw
alphabeta_solve(root, b, color, sentinel) ==
    [result |-> root.value,
     move |-> IF root.value > 0 THEN root.move ELSE sentinel,
     drawMove |-> draw_move(b, color)]

\* 'w' if the condition holds, else 'b'
w_if(cond) == IF cond THEN "w" ELSE "b"

\* SimpleGoBoard.solve(), after the search returned (result, move, drawMove)
solve_verdict(result, move, drawMove, player) ==
    IF move = "First"
    THEN IF result = 0 THEN <<"draw", drawMove>>
         ELSE <<w_if(player # WHITE), "NoMove">>
    ELSE IF move = "NoMove"
    THEN IF result # 0 THEN <<"draw", drawMove>>
         ELSE <<w_if(player # WHITE), move>>
    ELSE <<w_if(player = WHITE), move>>

\* SimpleGoBoard.solve()
solve ==
    /\ \E root \in {root_search(board, current_player)} :
         \E sentinel \in {"First", "NoMove"} :
            \E r \in {alphabeta_solve(root, board, current_player, sentinel)} :
               /\ board' = root.board
               /\ ret' = Ret("solve",
                             solve_verdict(r.result, r.move, r.drawMove, current_player),
                             [result |-> r.result, move |-> r.move,
                              cut |-> root.cut, deep |-> root.deep])
    /\ snap' = Before(board)
    /\ UNCHANGED <<size, current_player, goVars>>

Call_solve == ret.op = "init" /\ solve

\* a small board with stones anywhere
AnyPosition ==
    \E f \in [{p \in AllPoints : on_board(p)} -> {EMPTY, BLACK, WHITE}] :
        board = [p \in AllPoints |-> IF on_board(p) THEN f[p] ELSE BORDER]

\* a board with its first row full of stones and the other rows empty
FirstRowStones ==
    \E f \in [{row_start(1) + k : k \in 0 .. (size - 1)} -> Colors] :
        board = [p \in AllPoints |-> IF p \in DOMAIN f THEN f[p] ELSE EmptyBoard[p]]

\* the full board without a line of three, its first row left as it is or
\* set to one colour, and up to MaxFill cells of one stretch, of any line, empty
SolvePosition ==
    \E r2 \in Runs({WinLength}), c \in Colors \cup {None} :
        \E H \in SUBSET Cells(r2) :
            /\ Cardinality(H) <= MaxFill
            /\ board = [p \in AllPoints |->
                           IF p \in H THEN EMPTY
                           ELSE IF p \div NS = 1 /\ on_board(p) /\ c # None THEN c
                           ELSE DrawPattern[p]]

\* the positions solve() is called on
InitSolve ==
    \/ size = MinSize /\ AnyPosition /\ FreshFields
    \/ size = MinSize + 1 /\ FirstRowStones /\ FreshFields
    \/ \E player \in Colors : size = WinLength /\ SolvePosition /\ PositionFields(player)

NextSolve == Call_solve

\* a position, then one call of solve()
SpecSolve == InitSolve /\ [][NextSolve]_vars

(* ------------------ sequences of the board's operations ---------------- *)

\* the full board without a line of three, some of the first MaxFill cells
\* of its first row empty
DrawnPosition ==
    \E H \in SUBSET {row_start(1) + k : k \in 0 .. (MaxFill - 1)} :
        /\ board = [p \in AllPoints |-> IF p \in H THEN EMPTY ELSE DrawPattern[p]]

\* a fresh board of the smallest size, or a nearly full board of the smallest
\* size a line of five fits on
InitBorder ==
    \/ reset(MinSize)
    \/ size = WinLength /\ DrawnPosition /\ FreshFields

\* the rollouts are run on boards with at most MaxFill empty points
FewEmpty == Cardinality(get_empty_points(board)) <= MaxFill

\* the classifier is run on boards that a template, of five characters or
\* more, fits on
LineFits == size >= WinLength

NextBorder ==
    \/ \E point \in PointInputs, color \in Colors : play_move_gomoku(point, color)
    \/ \E point \in PointInputs, color \in Colors : play_move(point, color)
    \/ \E point \in PointInputs, color \in Colors : is_legal_noted(point, color, <<>>)
    \/ \E color \in Colors : FewEmpty /\ random_policy(color)
    \/ \E n \in 0 .. MaxSimulations : FewEmpty /\ find_all_potential_moves(n)
    \/ LineFits /\ classify_moves

\* any sequence of placements, legality tests, rollouts and classifications
SpecBorder == InitBorder /\ [][NextBorder]_vars

\* the first and last cell of the first row and the first two of the second
FightCells == {row_start(1), row_start(1) + size - 1, row_start(2), row_start(2) + 1}

\* most stones on the boards the capture rules are played on: one more than
\* a starting position has
MaxGoStones == Cardinality(FightCells) + 1

\* a position in which every stone has an empty cell next to it (placing its
\* stones in any order captures nothing and asks for no block's liberty): the
\* two ends of the first row in one colour, the first two cells of the
\* second row in the other
OpenPosition ==
    \E c \in Colors, player \in Colors :
        /\ board = [p \in AllPoints |->
                       IF p \in FightCells
                       THEN (IF p \div NS = 1 THEN c ELSE opponent(c))
                       ELSE EmptyBoard[p]]
        /\ PositionFields(player)

InitGo ==
    \/ reset(MinSize)
    \/ size = MinSize + 1 /\ OpenPosition

\* the cells of the first two rows and the first index after the array
GoInputs == {p \in InteriorPoints : p \div NS <= 2} \cup {maxpoint}

NextGo ==
    \/ \E point \in GoInputs, color \in Colors : play_move_within(point, color, MaxGoStones)
    \/ \E point \in GoInputs, color \in Colors : is_legal(point, color)
    \/ \E point \in GoInputs, color \in Colors : GoBoard_is_legal(point, color)

\* any sequence of legality tests and moves under the capture rules
SpecGo == InitGo /\ [][NextGo]_vars

Next ==
    \/ \E point \in PointInputs, color \in Colors : play_move_gomoku(point, color)
    \/ \E point \in PointInputs, color \in Colors : GoBoard_play_move(point, color)
    \/ \E color \in Colors : GoBoard_play_move_pass(color)
    \/ \E p \in AllPoints : undo_all_move(<<p>>)

Spec == Init /\ [][Next]_vars

(* ======================================================================= *)
(* Properties                                                              *)
(* ======================================================================= *)

\* the four line directions as (row step, column step), and the one a shift walks
Directions == {<<0, 1>>, <<1, 0>>, <<1, 1>>, <<1, 0 - 1>>}

DirectionOf(shift) ==
    CASE shift = 1 -> <<0, 1>>
      [] shift = NS -> <<1, 0>>
      [] shift = NS + 1 -> <<1, 1>>
      [] shift = NS - 1 -> <<1, 0 - 1>>

Row(p) == p \div NS
Col(p) == p % NS

\* the colour at (row, col), "off" outside the grid
At(b, row, col) ==
    IF row \in 1 .. size /\ col \in 1 .. size THEN b[NS * row + col] ELSE "off"

\* n consecutive stones of colour c somewhere along a row, column or diagonal
HasLine(b, c, n) ==
    \E row \in 1 .. size, col \in 1 .. size, d \in Directions :
        \A k \in 0 .. (n - 1) : At(b, row + k * d[1], col + k * d[2]) = c

\* the number of cells after p along d (sign 1) or before it (sign -1) that
\* continue p's colour without a break
Beyond(b, p, d, sign) ==
    Cardinality({k \in 1 .. size :
        \A j \in 1 .. k : At(b, Row(p) + sign * j * d[1], Col(p) + sign * j * d[2]) = b[p]})

LineThrough(b, p, d) == 1 + Beyond(b, p, d, 1) + Beyond(b, p, d, 0 - 1)

\* C1: check_game_end_gomoku answers (True, c) with c a colour that has five
\* or more consecutive stones on some row, column or diagonal whenever either
\* colour has such a run, and (False, None) when neither has.
C1_TerminalDetection ==
    ret.op = "check_game_end_gomoku" =>
        IF \E c \in Colors : HasLine(board, c, WinLength)
        THEN ret.val = "True" /\ ret.out \in Colors /\ HasLine(board, ret.out, WinLength)
        ELSE ret.val = "False" /\ ret.out = None

\* a run of six or more was on the board and the scan answered True for it
C1_Witness ==
    /\ ret.op = "check_game_end_gomoku"
    /\ ret.val = "True"
    /\ HasLine(board, ret.out, WinLength + 1)

\* the stretches of five consecutive entries of the lists
Windows(lists) ==
    UNION {{{lists[i][j + k] : k \in 0 .. (WinLength - 1)} :
                j \in 1 .. (Len(lists[i]) - WinLength + 1)} : i \in 1 .. Len(lists)}

\* the stretches of five cells along the diagonals of the grid
DiagonalStretches ==
    {{NS * (x[1] + k * x[3]) + x[2] + k : k \in 0 .. (WinLength - 1)} :
        x \in {y \in (1 .. size) \X (1 .. size) \X {1, 0 - 1} :
                  \A k \in 0 .. (WinLength - 1) :
                      y[1] + k * y[3] \in 1 .. size /\ y[2] + k \in 1 .. size}}

\* C2: on a board of size >= 5, detect_five_in_a_row answers a colour exactly
\* when some row, column or diagonal holds five consecutive stones, the colour
\* it answers has such a run, and every stretch of five cells along a diagonal
\* is a stretch of consecutive entries of one of the precomputed diagonals.
C2_DetectFiveInARow ==
    (ret.op = "detect_five_in_a_row" /\ size >= WinLength) =>
        /\ ret.val \in {EMPTY, BLACK, WHITE}
        /\ (ret.val # EMPTY) <=> (\E c \in Colors : HasLine(board, c, WinLength))
        /\ ret.val # EMPTY => HasLine(board, ret.val, WinLength)
        /\ DiagonalStretches \subseteq Windows(diags)

\* five in a row along an anti-diagonal that starts on the bottom row was found
C2_Witness ==
    /\ ret.op = "detect_five_in_a_row"
    /\ ret.val \in Colors
    /\ ~ \E row \in 1 .. size, col \in 1 .. size, d \in {<<0, 1>>, <<1, 0>>, <<1, 1>>} :
          \A k \in 0 .. (WinLength - 1) : At(board, row + k * d[1], col + k * d[2]) = ret.val
    /\ \E col \in 2 .. size :
          \A k \in 0 .. (WinLength - 1) : At(board, size - k, col + k) = ret.val

\* C3: on a board where both colours have five in a row the scan reports BLACK
\* (BLACK's stones are scanned before WHITE's).
C3_BlackReportedFirst ==
    (/\ ret.op = "check_game_end_gomoku"
     /\ HasLine(board, BLACK, WinLength)
     /\ HasLine(board, WHITE, WinLength))
    => (ret.val = "True" /\ ret.out = BLACK)

\* C3: WHITE's stones are scanned before BLACK's: the scan reports WHITE
\* whenever WHITE has five in a row, also when BLACK has five too, and reports
\* BLACK only when BLACK has five and WHITE has not.
C3_WhiteReportedFirst ==
    ret.op = "check_game_end_gomoku" =>
        /\ HasLine(board, WHITE, WinLength) => (ret.val = "True" /\ ret.out = WHITE)
        /\ (HasLine(board, BLACK, WinLength) /\ ~HasLine(board, WHITE, WinLength))
              => (ret.val = "True" /\ ret.out = BLACK)

\* both colours had five in a row, BLACK's at lower points than any of
\* WHITE's stones, and the scan reported WHITE
C3_Witness ==
    /\ ret.op = "check_game_end_gomoku"
    /\ HasLine(board, BLACK, WinLength)
    /\ HasLine(board, WHITE, WinLength)
    /\ \A p \in where1d(board, BLACK), q \in where1d(board, WHITE) : p < q
    /\ ret.out = WHITE

\* C4: the one-direction check answers True exactly when the line of
\* same-coloured stones through point along shift, point included, has
\* exactly five stones; a longer line gets False.
C4_ExactlyFive ==
    ret.op = "point_direction_check" =>
        /\ ret.val \in {"True", "False"}
        /\ (ret.val = "True")
              <=> (LineThrough(board, ret.out[1], DirectionOf(ret.out[2])) = WinLength)

\* C5: a placement on a target that is not an EMPTY cell of the array (a
\* stone, a BORDER cell, an index outside the array) returns False and leaves
\* every cell and current_player as they were.
C5_IllegalPlacementRefused ==
    [][\A point \in PointInputs, color \in Colors :
          (/\ play_move_gomoku(point, color) \/ GoBoard_play_move(point, color)
           /\ (point \notin AllPoints \/ board[point] # EMPTY))
          => (/\ ret'.val = "False"
              /\ board' = board
              /\ current_player' = current_player)]_vars

\* C6: a play_move_gomoku that succeeds on an EMPTY point has written the
\* colour into that cell, has changed no other cell (no stone has left the
\* board) and has made the other colour the current player.
C6_PlacementFrame ==
    (ret.op = "play_move_gomoku" /\ ret.val = "True") =>
        /\ snap.point \in AllPoints
        /\ snap.board[snap.point] = EMPTY
        /\ board[snap.point] = snap.color
        /\ {q \in AllPoints : board[q] # snap.board[q]} = {snap.point}
        /\ Stones(snap.board) \subseteq Stones(board)
        /\ current_player \in Colors \ {snap.color}

\* play_move_gomoku has just succeeded and a stone whose four neighbours are
\* all occupied, one of them by the other colour, stands on the board
C6_Witness ==
    /\ ret.op = "play_move_gomoku"
    /\ ret.val = "True"
    /\ \E q \in Stones(board) :
          /\ \A n \in Adjacent(q) : board[n] # EMPTY
          /\ \E n \in Adjacent(q) : board[n] \in Colors \ {board[q]}

\* C7: a successful placement on an EMPTY point followed at once by
\* undo_all_move of that point leaves the array as it was before the pair.
C7_PlaceUndoRestores ==
    (ret.op = "undo_all_move" /\ snap.undone) => board = snap.board

\* the pair has run on a board that already held stones
C7_Witness ==
    /\ ret.op = "undo_all_move"
    /\ snap.undone
    /\ Cardinality(Stones(board)) >= 2

\* C8: after random_policy and after find_all_potential_moves, whatever the
\* shuffle and the outcome, the array is cell for cell the one before the
\* call and current_player is the one before the call.
C8_RolloutConservation ==
    ret.op \in {"random_policy", "find_all_potential_moves"} =>
        /\ board = snap.board
        /\ current_player = ret.out.player

\* the array after the first k placements of a rollout
AfterPlacements(b, made, k) ==
    [p \in DOMAIN b |->
        IF \E i \in 1 .. k : made[i][1] = p
        THEN (made[CHOOSE i \in 1 .. k : made[i][1] = p])[2]
        ELSE b[p]]

FiveOnBoard(b) == \E c \in Colors : HasLine(b, c, WinLength)

\* C9: random_policy(c) places stones on distinct empty points, colours
\* alternating from c, stops after the first placement that leaves a five in
\* a row on the board and returns a colour that has one, and returns EMPTY
\* only when every empty point is filled and no five in a row has appeared.
C9_RolloutRun ==
    ret.op = "random_policy" =>
        LET made == ret.out.made
            n == Len(ret.out.made)
        IN  /\ ret.val \in {EMPTY, BLACK, WHITE}
            /\ \A i \in 1 .. n : board[made[i][1]] = EMPTY
            /\ \A i, j \in 1 .. n : made[i][1] = made[j][1] => i = j
            /\ \A i \in 1 .. n :
                  made[i][2] = IF i % 2 = 1 THEN ret.out.color ELSE opponent(ret.out.color)
            /\ \A k \in 1 .. (n - 1) : ~FiveOnBoard(AfterPlacements(board, made, k))
            /\ ret.val # EMPTY => HasLine(AfterPlacements(board, made, n), ret.val, WinLength)
            /\ ret.val = EMPTY =>
                  /\ n = Cardinality(get_empty_points(board))
                  /\ ~FiveOnBoard(AfterPlacements(board, made, n))

\* the empty cells next to an end of four consecutive stones of colour c, on
\* the line of the four
OpenEnds(b, c) ==
    {e \in get_empty_points(b) :
        \E row \in 1 .. size, col \in 1 .. size, d \in Directions :
            /\ \A k \in 0 .. (WinLength - 2) : At(b, row + k * d[1], col + k * d[2]) = c
            /\ \/ e = pt(row - d[1], col - d[2])
               \/ e = pt(row + (WinLength - 1) * d[1], col + (WinLength - 1) * d[2])}

\* C10: find_move_under_rule lists in Win every empty cell next to an end of
\* four consecutive stones of the side to move, on the line of the four.
C10_OpenEndInWin ==
    ret.op = "find_move_under_rule" =>
        \A e \in OpenEnds(board, current_player) :
            \E i \in 1 .. Len(ret.out.Win) : ret.out.Win[i] = e

\* the four per-direction counters of an empty point
DirectionScores(b, p, c) ==
    {analyze_hor(b, p, c), analyze_ver(b, p, c),
     analyze_left_diag(b, p, c), analyze_right_diag(b, p, c)}

InList(list, p) == \E i \in 1 .. Len(list) : list[i] = p

TiersOf(p) ==
    {t \in {"Win", "BlockWin", "OpenFour", "BlockOpenFour", "Random"} : InList(ret.out[t], p)}

\* C12: in the result of find_move_under_rule every empty point is listed in
\* exactly one of the five tiers, and Random lists exactly the empty points
\* that none of the other four lists.
C12_OneTierPerPoint ==
    ret.op = "find_move_under_rule" =>
        \A p \in get_empty_points(board) :
            /\ Cardinality(TiersOf(p)) = 1
            /\ "Random" \in TiersOf(p) <=> TiersOf(p) \subseteq {"Random"}

\* the string the cells from start read along step, for the given colour
RECURSIVE Read(_, _, _, _, _)
Read(b, start, step, n, color) ==
    IF n = 0 THEN ""
    ELSE IF start \notin AllPoints THEN "?"
    ELSE piece(b, start, color) \o Read(b, start + step, step, n - 1, color)

\* q lies under the offset dis of a template t of the tier that the board
\* shows along some direction
UnderTemplate(b, q, tier, color) ==
    \E d \in 1 .. 4, t \in DOMAIN tier :
        \E dis \in tier[t] :
            Read(b, q - (Len(t) - 1 - dis) * (direction_x[d] + direction_y[d] * NS),
                 direction_x[d] + direction_y[d] * NS, Len(t), color) = t

\* C13: every point in a move set of get_pattern_moves or list_solve_point lies
\* under an offset of a template of that tier which the board shows, and is an
\* EMPTY cell of the grid; so is every point returned.
C13_MovesUnderDots ==
    ret.op \in {"get_pattern_moves", "list_solve_point"} =>
        /\ \A i \in 1 .. 4 : \A q \in ret.out.moveSet[i] :
              /\ q \in AllPoints /\ on_board(q) /\ board[q] = EMPTY
              /\ UnderTemplate(board, q,
                               IF ret.op = "get_pattern_moves" THEN patternList[i]
                               ELSE solvePatternList[i], current_player)
        /\ \A q \in ret.out.moves : q \in AllPoints /\ on_board(q) /\ board[q] = EMPTY

\* the classifier has found the trailing empty cell of four own stones next
\* to the border
C13_Witness ==
    /\ ret.op = "get_pattern_moves"
    /\ \E q \in ret.out.moves :
          /\ ret.out.i = 0
          /\ Read(board, q - 4, 1, 6, current_player) = "xxxx.B"

\* the tiers, numbered from 0, whose move set is not empty
NonEmptyTiers(moveSet) == {i \in 0 .. 3 : moveSet[i + 1] # {}}

\* C14: get_pattern_moves returns None exactly when all four move sets are
\* empty; otherwise it returns the lowest-numbered (highest-priority) tier
\* with a member, together with exactly that tier's set.
C14_HighestTierReturned ==
    ret.op = "get_pattern_moves" =>
        /\ ret.val = None <=> NonEmptyTiers(ret.out.moveSet) = {}
        /\ ret.val # None =>
              /\ ret.out.i \in NonEmptyTiers(ret.out.moveSet)
              /\ \A j \in NonEmptyTiers(ret.out.moveSet) : ret.out.i <= j
              /\ ret.out.moves = ret.out.moveSet[ret.out.i + 1]

\* get_pattern_moves has returned a tier while a lower-priority tier also
\* had a member
C14_Witness ==
    /\ ret.op = "get_pattern_moves"
    /\ ret.val # None
    /\ \E j \in NonEmptyTiers(ret.out.moveSet) : j > ret.out.i

\* C15: after any sequence of placements, legality tests, rollouts and
\* classifications the cells holding BORDER are exactly those that held
\* BORDER after construction.
C15_BorderFixed ==
    /\ DOMAIN board = AllPoints
    /\ \A p \in AllPoints : board[p] = BORDER <=> EmptyBoard[p] = BORDER

\* a placement by play_move has just taken a stone off the board
C15_Witness ==
    /\ ret.op = "play_move"
    /\ snap.point >= 0
    /\ \E p \in AllPoints : snap.board[p] \in Colors /\ board[p] = EMPTY

\* how many of the four orthogonal neighbours of the grid cell p are grid
\* cells: 2 in a corner, 3 on an edge, 4 elsewhere
GridNeighbourCount(p) ==
    4 - (IF Row(p) = 1 THEN 1 ELSE 0) - (IF Row(p) = size THEN 1 ELSE 0)
      - (IF Col(p) = 1 THEN 1 ELSE 0) - (IF Col(p) = size THEN 1 ELSE 0)

\* C16: at every moment neighbors[p] of a grid cell p lists, once each, the
\* orthogonally adjacent cells p-1, p+1, p-NS, p+NS that are cells of the
\* grid (2 in a corner, 3 on an edge, 4 elsewhere), and neighbors[p] of a
\* BORDER cell is empty.
C16_NeighborLists ==
    \A p \in AllPoints :
        IF on_board(p)
        THEN /\ {neighbors[p][i] : i \in 1 .. Len(neighbors[p])}
                   = {q \in {p - 1, p + 1, p - NS, p + NS} : on_board(q)}
             /\ Len(neighbors[p]) = GridNeighbourCount(p)
        ELSE neighbors[p] = <<>>

\* a legality test has run on a board that has corners, edges and cells with
\* four neighbours
C16_Witness ==
    /\ ret.op = "is_legal"
    /\ \A n \in 2 .. 4 : \E p \in AllPoints : Len(neighbors[p]) = n

\* C17: on every board size the eight indices around a grid cell, p +- 1,
\* p +- NS, p +- (NS + 1), p +- (NS - 1), lie in [0, maxpoint), where
\* maxpoint = size * size + 3 * (size + 1), and a one-direction check started
\* on a stone reads no index outside [0, maxpoint) and raises no IndexError.
C17_WalksStayInArray ==
    /\ maxpoint = size * size + 3 * (size + 1)
    /\ \A p \in AllPoints : on_board(p) =>
          \A d \in {1, NS, NS + 1, NS - 1} : {p + d, p - d} \subseteq 0 .. (maxpoint - 1)
    /\ ret.op = "point_direction_check" =>
          /\ ret.val # "IndexError"
          /\ direction_check_reads(board, ret.out[1], ret.out[2]) \subseteq 0 .. (maxpoint - 1)

\* a check started on a stone of the largest board has read the first or the
\* last cell of the array, a BORDER cell
C17_Witness ==
    /\ ret.op = "point_direction_check"
    /\ direction_check_reads(board, ret.out[1], ret.out[2]) \cap {0, maxpoint - 1} # {}
    /\ size = MaxSize

\* C19: every stone the search places is removed again, on every path out of
\* a node, the beta cutoff and the depth cutoff included: when solve() has
\* returned, every cell of the array holds what it held at the call.
C19_BoardRestored ==
    ret.op = "solve" => board = snap.board

\* solve() has returned from a search that took a beta cutoff and reached the
\* depth limit
C19_Witness ==
    /\ ret.op = "solve"
    /\ ret.out.cut /\ ret.out.deep
    /\ board = snap.board

\* C21: the assertion `count <= 5` holds on every call: on every board that
\* placements reach, runs of six or more included, the one-direction check
\* from any stone in any of the four shifts, and point_check_game_end_gomoku
\* from that stone, return without an AssertionError.
C21_CountAtMostFive ==
    ret.op = "point_direction_check" =>
        /\ ret.val # "AssertionError"
        /\ point_check_game_end_gomoku(board, ret.out[1]) # "AssertionError"

\* the cells of r all hold c
Holds(b, r, c) == \A p \in Cells(r) : b[p] = c

\* C26: a full scan by check_game_end_gomoku never trips the assertion, also
\* on boards with runs of six or more: it answers True or False, it answers
\* True when a line of five is on the board, and the one-direction check
\* from the lowest stone of a run of five or more, along the run, is True.
C26_ScanNeverAsserts ==
    ret.op = "check_game_end_gomoku" =>
        /\ ret.val \in {"True", "False"}
        /\ (\E c \in Colors : HasLine(board, c, WinLength)) => ret.val = "True"
        /\ \A r \in Runs({WinLength}), c \in Colors :
              (Holds(board, r, c) /\ get_color(board, r.start - r.shift) # c)
              => point_direction_check_connect_gomoko(board, r.start, r.shift) = "True"

\* the scan has answered on a board with a run of six of one colour, a stone
\* of which fails the assertion when checked on its own
C26_Witness ==
    /\ ret.op = "check_game_end_gomoku"
    /\ ret.val = "True"
    /\ \E r \in Runs({WinLength + 1}) :
          /\ Holds(board, r, ret.out)
          /\ point_check_game_end_gomoku(board, r.start + r.shift) = "AssertionError"

\* C22: is_legal(point, color) leaves the board as it was: every cell,
\* current_player and ko_recapture are what they were before the call, and
\* what it returns is what play_move(point, color) returns from that state;
\* for GoBoard.is_legal, which plays on a copy, and for
\* SimpleGoBoard.is_legal, which places and removes a stone.
C22_IsLegalLeavesBoard ==
    [][/\ ret'.op = "is_legal" =>
            /\ board' = board
            /\ current_player' = current_player
            /\ ko_recapture' = ko_recapture
            /\ ret'.val = play_move_result(board, liberty_of, ko_recapture, current_player,
                                           ret'.out[1], ret'.out[2]).val
       /\ ret'.op = "GoBoard.is_legal" =>
            /\ board' = board
            /\ current_player' = current_player
            /\ ko_recapture' = ko_recapture
            /\ ret'.val = PlaceResult(board, ret'.out[1], ret'.out[2]).val]_vars

\* SimpleGoBoard.is_legal has refused a suicide: the stone it wrote is gone
\* and the cell is EMPTY again
C22_Witness ==
    /\ ret.op = "is_legal"
    /\ ret.val = "False"
    /\ IndexOK(ret.out[1])
    /\ board[Wrap(ret.out[1])] = EMPTY
    /\ ToString(ret.out[1]) # ko_recapture

\* the four cells next to p
Beside4(p) == {p - 1, p + 1, p - NS, p + NS}

\* the block of the stone s has an empty cell next to one of its stones
BlockHasLiberty(b, s) == \E p \in block_of(b, s) : \E q \in Beside4(p) : b[q] = EMPTY

\* C23: from an empty SimpleGoBoard, after any sequence of is_legal and
\* play_move calls, every block of stones on the board has a liberty:
\* play_move takes off every opposing block next to the played point that is
\* left without one and undoes a placement whose own block would have none.
C23_EveryBlockHasLiberty ==
    \A s \in Stones(board) : BlockHasLiberty(board, s)

\* C24: after any sequence of is_legal and play_move calls, for every stone s
\* whose liberty_of[s] is a point that is EMPTY, that point is next to a
\* stone of the block that holds s.
C24_LibertyCacheValid ==
    \A s \in Stones(board) :
        (liberty_of[s] # NULLPOINT /\ board[liberty_of[s]] = EMPTY)
        => \E p \in block_of(board, s) : liberty_of[s] \in Beside4(p)

\* the empty grid cells that lie, with four stones of colour c, in five cells
\* that follow each other on a row, a column or a diagonal of the board
WinPoints(b, c) ==
    {p \in InteriorPoints :
        /\ b[p] = EMPTY
        /\ \E d \in Directions, j \in 0 .. (WinLength - 1) :
              \A k \in 0 .. (WinLength - 1) :
                  k # j => At(b, Row(p) + (k - j) * d[1], Col(p) + (k - j) * d[2]) = c}

\* C25: get_pattern_moves returns tier 0 exactly when the side to move has a
\* point that wins at once, and the moves it then returns are exactly the
\* EMPTY points that lie with four stones of current_player in five
\* consecutive in-board cells of a row, column or diagonal; nothing is matched
\* across the end of one row and the start of the next.
C25_WinTierExact ==
    ret.op = "get_pattern_moves" =>
        /\ ret.out.i = 0 <=> WinPoints(board, current_player) # {}
        /\ ret.out.i = 0 => ret.out.moves = WinPoints(board, current_player)
        /\ ret.out.moveSet[1] = WinPoints(board, current_player)

\* tier 0 was returned with two winning points, the two ends of four stones
C25_Witness ==
    /\ ret.op = "get_pattern_moves"
    /\ ret.out.i = 0
    /\ Cardinality(ret.out.moves) = 2

\* C28: on a freshly constructed board of every size from MinSize up, the
\* sizes below WinLength included, detect_five_in_a_row() completes and
\* reports EMPTY.
C28_SmallBoardsComplete ==
    (ret.op = "detect_five_in_a_row" /\ board = EmptyBoard) => ret.val = EMPTY

\* colour c has five in a row and the other colour has not
OnlyLine(b, c) == HasLine(b, c, WinLength) /\ ~HasLine(b, opponent(c), WinLength)

\* C27: on a board of size >= 5 the two detectors agree on the same cells:
\* detect_five_in_a_row returns a colour exactly when check_game_end_gomoku
\* returns True, and when only one colour has five in a row both report it.
\* (after a call of detect_five_in_a_row; scan: the answer of
\* check_game_end_gomoku on the same array; lined: the colours with five in
\* a row)
C27_DetectorsAgree ==
    (size >= WinLength /\ ret.op = "detect_five_in_a_row") =>
        \E scan \in {check_game_end_gomoku(board)},
           lined \in {{c \in Colors : HasLine(board, c, WinLength)}} :
            /\ (ret.val \in Colors) <=> (scan[1] = "True")
            /\ \A c \in Colors : lined = {c} => (ret.val = c /\ scan = <<"True", c>>)

\* BLACK alone had a line, one of six stones, and both detectors reported BLACK
C27_Witness ==
    /\ ret.op = "detect_five_in_a_row"
    /\ ret.val = BLACK
    /\ HasLine(board, BLACK, WinLength + 1)
    /\ OnlyLine(board, BLACK)
    /\ check_game_end_gomoku(board) = <<"True", BLACK>>

\* p is EMPTY and a stone of colour c on it lies on a line of at least five
\* consecutive stones of c
CompletesLine(b, p, c) ==
    /\ b[p] = EMPTY
    /\ \E d \in Directions : LineThrough(Paint(b, {p}, c), p, d) >= WinLength

\* C29: in the result of find_move_under_rule every point of Win is an EMPTY
\* point on which a stone of the side to move makes a line of at least five
\* of its stones, and every point of BlockWin is an EMPTY point on which a
\* stone of the opponent makes such a line for the opponent.
C29_DecisiveTiersSound ==
    ret.op = "find_move_under_rule" =>
        /\ \A i \in 1 .. Len(ret.out.Win) :
              CompletesLine(board, ret.out.Win[i], current_player)
        /\ \A i \in 1 .. Len(ret.out.BlockWin) :
              CompletesLine(board, ret.out.BlockWin[i], opponent(current_player))

\* the ranker listed a point in Win and another point in BlockWin
C29_Witness ==
    /\ ret.op = "find_move_under_rule"
    /\ \E i \in 1 .. Len(ret.out.Win), j \in 1 .. Len(ret.out.BlockWin) :
          ret.out.Win[i] # ret.out.BlockWin[j]

\* the empty points of b on which a stone of colour c completes five in a row
WinningPoints(b, c) == {p \in get_empty_points(b) : CompletesLine(b, p, c)}

\* C30: when the side to move has an empty point that completes five in a
\* row, find_all_potential_moves(n), n >= 1, returns such a point whatever
\* the shuffle and the rollouts give; and it returns [] exactly when the
\* board has no empty point. (Stated for the boards on which no colour has
\* five in a row yet, where the game is still on.)
C30_ReturnsWinningMove ==
    (ret.op = "find_all_potential_moves" /\ ret.out.n >= 1 /\ ~FiveOnBoard(snap.board)) =>
        /\ WinningPoints(snap.board, ret.out.player) # {} =>
              /\ ret.val = "move"
              /\ ret.out.move \in WinningPoints(snap.board, ret.out.player)
        /\ (ret.val = "[]") <=> (get_empty_points(snap.board) = {})

====
